---- MODULE Spec2Model ----
(***************************************************************************)
(* State machine of the NST UBI pallet (pallets/ubi-token/src/lib.rs):     *)
(* the storage items of the pallet, the two dispatchables `claim` and      *)
(* `burn`, and the block height supplied by frame_system.                  *)
(***************************************************************************)
EXTENDS Integers, Naturals, Sequences, FiniteSets, TLC

(***************************************************************************)
(* Bounds of the model.                                                    *)
(***************************************************************************)
\* the block number runs from 1 to MaxHeight
MaxHeight == 5

\* the accounts of the mock runtime that act in the model
ALICE == 1
BOB == 2
Accounts == {ALICE, BOB}

\* LastClaim is an OptionQuery map: None when the account never claimed
None == 0 - 1

\* the value the saturating operations clamp at: u128::MAX in the pallet, here
\* the largest integer TLC represents (no amount of the model reaches it)
SaturationCap == 2147483647

(***************************************************************************)
(* Runtime configurations (the constants of trait Config) the model is     *)
(* started with.  The block counts are small so that claim periods, the    *)
(* backlog cap and expiry all happen within MaxHeight blocks.              *)
(***************************************************************************)
Configs ==
    { [UbiAmount |-> 50, ClaimPeriodBlocks |-> 2, ExpirationBlocks |-> 3, MaxBacklogPeriods |-> 1],
      [UbiAmount |-> 50, ClaimPeriodBlocks |-> 2, ExpirationBlocks |-> 3, MaxBacklogPeriods |-> 2] }

VARIABLES
    cfg,                \* the runtime's Config constants
    height,             \* frame_system::Pallet::block_number()
    Balances,           \* account -> sequence of TokenBatch
    LastClaim,          \* account -> block number of the last claim, or None
    ReputationStore,    \* account -> Reputation
    UniqueRecipients,   \* sender -> recipient -> bool
    TotalSupply,        \* u128
    events,             \* events deposited by the last dispatched call
    last                \* the last dispatched call and its DispatchResult

vars == <<cfg, height, Balances, LastClaim, ReputationStore, UniqueRecipients,
          TotalSupply, events, last>>

UbiAmount == cfg.UbiAmount
ClaimPeriodBlocks == cfg.ClaimPeriodBlocks
ExpirationBlocks == cfg.ExpirationBlocks
MaxBacklogPeriods == cfg.MaxBacklogPeriods

MAX_BATCHES == 10
MAX_UNIQUE_RECIPIENTS == 1000
MIN_SENDER_WEIGHT == 500
MAX_SENDER_WEIGHT == 2000
DECAY_FACTOR == 950
POINTS_PER_UNIQUE_RECIPIENT == 50
POINTS_PER_STREAK_DAY == 10
MAX_STREAK_BONUS == 500
WEIGHTED_RECEIVED_MULTIPLIER == 2
STREAK_GRACE_PERIODS == 2

\* the amounts offered to `burn`: zero, one claim period's mint, and two
BurnAmounts == { 0, UbiAmount, UbiAmount + UbiAmount }

(***************************************************************************)
(* Saturating arithmetic of sp_runtime::traits::Saturating on unsigned     *)
(* integers.                                                               *)
(***************************************************************************)
saturating_add(a, b) == IF a > SaturationCap - b THEN SaturationCap ELSE a + b

saturating_sub(a, b) == IF b > a THEN 0 ELSE a - b

saturating_mul(a, b) == IF a # 0 /\ b > SaturationCap \div a THEN SaturationCap ELSE a * b

Min(a, b) == IF a < b THEN a ELSE b

(***************************************************************************)
(* Data types.                                                             *)
(***************************************************************************)
TokenBatch(amount, expires_at) == [amount |-> amount, expires_at |-> expires_at]

DefaultReputation ==
    [ burns_sent_count |-> 0, burns_sent_volume |-> 0,
      burns_received_count |-> 0, burns_received_volume |-> 0,
      first_activity |-> 0, weighted_received |-> 0,
      unique_recipients_count |-> 0, claim_streak |-> 0,
      last_claim_period |-> 0, score |-> 0 ]

\* the pallet's storage as one value, as a handler reads and writes it; a
\* call starts with no event of its own deposited
Store ==
    [ Balances |-> Balances, LastClaim |-> LastClaim,
      ReputationStore |-> ReputationStore, UniqueRecipients |-> UniqueRecipients,
      TotalSupply |-> TotalSupply, events |-> <<>> ]

\* variant of deposit_event: Expired events are not recorded
deposit_event_drops_expired(s, e) ==
    IF e.type = "Expired" THEN s ELSE [s EXCEPT !.events = Append(@, e)]

\* variant of deposit_event: the newest event is put in front of the others
deposit_event_front(s, e) == [s EXCEPT !.events = <<e>> \o @]

deposit_event(s, e) == [s EXCEPT !.events = Append(@, e)]

(***************************************************************************)
(* Helpers of impl Pallet.                                                 *)
(***************************************************************************)
\* variant of calculate_claimable_periods: counts the period boundaries crossed
\* since the last claim instead of the whole periods elapsed
calculate_claimable_periods_by_boundary(s, who, current_block) ==
    IF s.LastClaim[who] = None
    THEN 1
    ELSE saturating_sub(current_block \div ClaimPeriodBlocks,
                        s.LastClaim[who] \div ClaimPeriodBlocks)

\* variant of calculate_claimable_periods: a period that has only begun counts
calculate_claimable_periods_rounds_up(s, who, current_block) ==
    IF s.LastClaim[who] = None
    THEN 1
    ELSE (saturating_sub(current_block, s.LastClaim[who]) + ClaimPeriodBlocks - 1)
             \div ClaimPeriodBlocks

calculate_claimable_periods(s, who, current_block) ==
    IF s.LastClaim[who] = None
    THEN 1
    ELSE saturating_sub(current_block, s.LastClaim[who]) \div ClaimPeriodBlocks

RemoveAt(seq, i) == SubSeq(seq, 1, i - 1) \o SubSeq(seq, i + 1, Len(seq))

\* variant of cleanup_loop: a batch is swept only after its expiry block
RECURSIVE cleanup_loop_late(_, _, _, _)
cleanup_loop_late(batches, i, expired_amount, current_block) ==
    IF i > Len(batches)
    THEN [batches |-> batches, expired_amount |-> expired_amount]
    ELSE IF batches[i].expires_at < current_block
         THEN cleanup_loop_late(RemoveAt(batches, i), i,
                                saturating_add(expired_amount, batches[i].amount),
                                current_block)
         ELSE cleanup_loop_late(batches, i + 1, expired_amount, current_block)

RECURSIVE cleanup_loop(_, _, _, _)
cleanup_loop(batches, i, expired_amount, current_block) ==
    IF i > Len(batches)
    THEN [batches |-> batches, expired_amount |-> expired_amount]
    ELSE IF batches[i].expires_at <= current_block
         THEN cleanup_loop(RemoveAt(batches, i), i,
                           saturating_add(expired_amount, batches[i].amount),
                           current_block)
         ELSE cleanup_loop(batches, i + 1, expired_amount, current_block)

\* variant of cleanup_expired_batches: nothing is swept
cleanup_expired_batches_never(s, who, current_block) == [store |-> s, expired |-> 0]

\* variant of cleanup_expired_batches: the sweep forgets the total supply
cleanup_expired_batches_keeps_supply(s, who, current_block) ==
    LET r == cleanup_loop(s.Balances[who], 1, 0, current_block)
    IN  [store |-> [s EXCEPT !.Balances[who] = r.batches], expired |-> r.expired_amount]

\* variant of cleanup_expired_batches: the expired amount is taken from the
\* supply twice
cleanup_expired_batches_deducts_twice(s, who, current_block) ==
    LET r == cleanup_loop(s.Balances[who], 1, 0, current_block)
        s1 == [s EXCEPT !.Balances[who] = r.batches]
        s2 == IF r.expired_amount > 0
              THEN [s1 EXCEPT !.TotalSupply =
                        saturating_sub(saturating_sub(@, r.expired_amount), r.expired_amount)]
              ELSE s1
    IN  [store |-> s2, expired |-> r.expired_amount]

\* returns the store after the sweep and the total expired amount
cleanup_expired_batches(s, who, current_block) ==
    LET r == cleanup_loop(s.Balances[who], 1, 0, current_block)
        s1 == [s EXCEPT !.Balances[who] = r.batches]
        s2 == IF r.expired_amount > 0
              THEN [s1 EXCEPT !.TotalSupply = saturating_sub(@, r.expired_amount)]
              ELSE s1
    IN  [store |-> s2, expired |-> r.expired_amount]

\* slice::sort_by(|a, b| a.expires_at.cmp(&b.expires_at)): a stable sort
RECURSIVE insert_sorted(_, _)
insert_sorted(sorted, b) ==
    IF sorted = <<>>
    THEN <<b>>
    ELSE IF sorted[Len(sorted)].expires_at <= b.expires_at
         THEN Append(sorted, b)
         ELSE Append(insert_sorted(SubSeq(sorted, 1, Len(sorted) - 1), b),
                     sorted[Len(sorted)])

\* variant of sort_by_expires_at: the batch that expires last comes first
RECURSIVE sort_latest_first(_)
sort_latest_first(batches) ==
    IF batches = <<>>
    THEN <<>>
    ELSE LET i == CHOOSE j \in 1 .. Len(batches) :
                      \A k \in 1 .. Len(batches) :
                          batches[k].expires_at <= batches[j].expires_at
         IN  <<batches[i]>> \o
             sort_latest_first(SubSeq(batches, 1, i - 1) \o SubSeq(batches, i + 1, Len(batches)))

RECURSIVE sort_by_expires_at(_)
sort_by_expires_at(batches) ==
    IF batches = <<>>
    THEN <<>>
    ELSE insert_sorted(sort_by_expires_at(SubSeq(batches, 1, Len(batches) - 1)),
                       batches[Len(batches)])

\* variant of fifo_loop: expired batches are not skipped
RECURSIVE fifo_loop_no_skip(_, _, _, _)
fifo_loop_no_skip(batches, i, remaining, current_block) ==
    IF i > Len(batches)
    THEN [batches |-> batches, remaining |-> remaining]
    ELSE IF batches[i].amount >= remaining
         THEN [batches |-> [batches EXCEPT ![i].amount = saturating_sub(@, remaining)],
               remaining |-> 0]
         ELSE fifo_loop_no_skip([batches EXCEPT ![i].amount = 0], i + 1,
                                saturating_sub(remaining, batches[i].amount),
                                current_block)

\* the for loop of burn_fifo over batches.iter_mut(), from index i on
RECURSIVE fifo_loop(_, _, _, _)
fifo_loop(batches, i, remaining, current_block) ==
    IF i > Len(batches)
    THEN [batches |-> batches, remaining |-> remaining]
    ELSE IF batches[i].expires_at <= current_block
         THEN fifo_loop(batches, i + 1, remaining, current_block)
         ELSE IF batches[i].amount >= remaining
              THEN [batches |-> [batches EXCEPT ![i].amount = saturating_sub(@, remaining)],
                    remaining |-> 0]
              ELSE fifo_loop([batches EXCEPT ![i].amount = 0], i + 1,
                             saturating_sub(remaining, batches[i].amount),
                             current_block)

\* variant of burn_fifo: emptied batches stay in the ledger
burn_fifo_keeps_empty(s, who, amount, current_block) ==
    LET sorted == sort_by_expires_at(s.Balances[who])
        r == fifo_loop(sorted, 1, amount, current_block)
    IN  IF r.remaining = 0
        THEN [res |-> "Ok", store |-> [s EXCEPT !.Balances[who] = r.batches]]
        ELSE [res |-> "InsufficientBalance", store |-> s]

\* Balances::try_mutate: the closure's writes are kept only on Ok
burn_fifo(s, who, amount, current_block) ==
    LET sorted == sort_by_expires_at(s.Balances[who])
        r == fifo_loop(sorted, 1, amount, current_block)
        retained == SelectSeq(r.batches, LAMBDA b : b.amount > 0)
    IN  IF r.remaining = 0
        THEN [res |-> "Ok", store |-> [s EXCEPT !.Balances[who] = retained]]
        ELSE [res |-> "InsufficientBalance", store |-> s]

RECURSIVE fold_amounts(_, _)
fold_amounts(batches, acc) ==
    IF batches = <<>>
    THEN acc
    ELSE fold_amounts(Tail(batches), saturating_add(acc, Head(batches).amount))

spendable_balance(s, who, current_block) ==
    fold_amounts(SelectSeq(s.Balances[who], LAMBDA b : b.expires_at > current_block), 0)

total_balance(s, who) == fold_amounts(s.Balances[who], 0)

\* variant of calculate_sender_weight: the tier boundaries belong to the lower tier
calculate_sender_weight_inclusive(sender_score) ==
    IF sender_score <= 10 THEN MIN_SENDER_WEIGHT
    ELSE IF sender_score <= 100 THEN 750
    ELSE IF sender_score <= 1000 THEN 1000
    ELSE IF sender_score <= 10000 THEN 1500
    ELSE MAX_SENDER_WEIGHT

calculate_sender_weight(sender_score) ==
    IF sender_score < 10 THEN MIN_SENDER_WEIGHT
    ELSE IF sender_score < 100 THEN 750
    ELSE IF sender_score < 1000 THEN 1000
    ELSE IF sender_score < 10000 THEN 1500
    ELSE MAX_SENDER_WEIGHT

block_to_period(block) == block \div ClaimPeriodBlocks

\* variant of update_streak: a broken streak restarts from zero
update_streak_resets_to_zero(rep, current_period) ==
    LET periods_missed == IF current_period >= rep.last_claim_period
                          THEN current_period - rep.last_claim_period
                          ELSE 0
    IN  [rep EXCEPT
            !.claim_streak = IF periods_missed <= STREAK_GRACE_PERIODS + 1
                             THEN @ + 1
                             ELSE 0,
            !.last_claim_period = current_period]

\* variant of update_streak: the streak is kept only within the grace periods
update_streak_strict_grace(rep, current_period) ==
    LET periods_missed == IF current_period >= rep.last_claim_period
                          THEN current_period - rep.last_claim_period
                          ELSE 0
    IN  [rep EXCEPT
            !.claim_streak = IF periods_missed <= STREAK_GRACE_PERIODS
                             THEN @ + 1
                             ELSE 1,
            !.last_claim_period = current_period]

update_streak(rep, current_period) ==
    LET periods_missed == saturating_sub(current_period, rep.last_claim_period)
    IN  [rep EXCEPT
            !.claim_streak = IF periods_missed <= STREAK_GRACE_PERIODS + 1
                             THEN saturating_add(@, 1)
                             ELSE 1,
            !.last_claim_period = current_period]

apply_decay(score) == saturating_mul(score, DECAY_FACTOR) \div 1000

calculate_streak_bonus(streak) ==
    Min(saturating_mul(streak, POINTS_PER_STREAK_DAY), MAX_STREAK_BONUS)

recalculate_score(rep) ==
    LET unique_bonus == saturating_mul(rep.unique_recipients_count, POINTS_PER_UNIQUE_RECIPIENT)
        sent_bonus == rep.burns_sent_volume
        received_bonus == saturating_mul(rep.weighted_received, WEIGHTED_RECEIVED_MULTIPLIER)
        streak_bonus == calculate_streak_bonus(rep.claim_streak)
    IN  saturating_add(saturating_add(saturating_add(unique_bonus, sent_bonus),
                                      received_bonus), streak_bonus)

(***************************************************************************)
(* The dispatchables.  Each returns its DispatchResult and the store as    *)
(* the body left it; with_storage_layer decides what is committed.         *)
(***************************************************************************)
\* variant of periods_to_claim: the backlog is not capped
periods_to_claim_uncapped(claimable_periods) == claimable_periods

\* variant of periods_to_claim: every claim mints the full backlog
periods_to_claim_full_backlog(claimable_periods) == MaxBacklogPeriods

\* variant of periods_to_claim: the cap lets one period more through
periods_to_claim_cap_exceeded(claimable_periods) == Min(claimable_periods, MaxBacklogPeriods + 1)

\* claim: cap the claimable periods at the maximum backlog
periods_to_claim(claimable_periods) == Min(claimable_periods, MaxBacklogPeriods)

\* variant of claim_append: the number of batches is not limited
claim_append_unbounded(batches, amount_to_claim, expires_at) ==
    LET same == { i \in 1 .. Len(batches) : batches[i].expires_at = expires_at }
    IN  IF same # {}
        THEN LET i == CHOOSE j \in same : \A k \in same : j <= k
             IN  [res |-> "Ok",
                  batches |-> [batches EXCEPT ![i].amount = @ + amount_to_claim]]
        ELSE [res |-> "Ok",
              batches |-> Append(batches, TokenBatch(amount_to_claim, expires_at))]

\* variant of claim_append: a new batch is put in front of the stored ones
claim_append_front(batches, amount_to_claim, expires_at) ==
    LET same == { i \in 1 .. Len(batches) : batches[i].expires_at = expires_at }
    IN  IF same # {}
        THEN LET i == CHOOSE j \in same : \A k \in same : j <= k
             IN  [res |-> "Ok",
                  batches |-> [batches EXCEPT ![i].amount = @ + amount_to_claim]]
        ELSE IF Len(batches) >= MAX_BATCHES
             THEN [res |-> "TooManyBatches", batches |-> batches]
             ELSE [res |-> "Ok",
                   batches |-> <<TokenBatch(amount_to_claim, expires_at)>> \o batches]

\* the closure passed to Balances::try_mutate in claim
claim_append(batches, amount_to_claim, expires_at) ==
    LET same == { i \in 1 .. Len(batches) : batches[i].expires_at = expires_at }
    IN  IF same # {}
        THEN LET i == CHOOSE j \in same : \A k \in same : j <= k
             IN  [res |-> "Ok",
                  batches |-> [batches EXCEPT ![i].amount = saturating_add(@, amount_to_claim)]]
        ELSE IF Len(batches) >= MAX_BATCHES
             THEN [res |-> "TooManyBatches", batches |-> batches]
             ELSE [res |-> "Ok",
                   batches |-> Append(batches, TokenBatch(amount_to_claim, expires_at))]

\* variant of claim_update_reputation: every claim stamps first_activity
claim_update_reputation_restamps(rep, current_block) ==
    LET rep1 == [rep EXCEPT !.first_activity = current_block]
        rep2 == [rep1 EXCEPT !.score = apply_decay(@)]
        rep3 == update_streak(rep2, block_to_period(current_block))
    IN  [rep3 EXCEPT !.score = recalculate_score(rep3)]

\* variant of claim_update_reputation: the decay is applied to the recalculated
\* score instead of the score cached before the claim
claim_update_reputation_decay_last(rep, current_block) ==
    LET rep1 == IF rep.first_activity = 0
                THEN [rep EXCEPT !.first_activity = current_block]
                ELSE rep
        rep2 == update_streak(rep1, block_to_period(current_block))
    IN  [rep2 EXCEPT !.score = apply_decay(recalculate_score(rep2))]

\* variant of claim_update_reputation: the decay is taken from the volume sent,
\* so that it survives the recalculation of the score
claim_update_reputation_decays_volume(rep, current_block) ==
    LET rep1 == IF rep.first_activity = 0
                THEN [rep EXCEPT !.first_activity = current_block]
                ELSE rep
        rep2 == [rep1 EXCEPT !.burns_sent_volume = apply_decay(@)]
        rep3 == update_streak(rep2, block_to_period(current_block))
    IN  [rep3 EXCEPT !.score = recalculate_score(rep3)]

\* claim: the closure passed to ReputationStore::mutate
claim_update_reputation(rep, current_block) ==
    LET rep1 == IF rep.first_activity = 0
                THEN [rep EXCEPT !.first_activity = current_block]
                ELSE rep
        rep2 == [rep1 EXCEPT !.score = apply_decay(@)]
        rep3 == update_streak(rep2, block_to_period(current_block))
    IN  [rep3 EXCEPT !.score = recalculate_score(rep3)]

\* variant of claim: the expiry of the minted batch is recorded as the last claim
claim_stamps_expiry(s, current_block, who) ==
    LET claimable_periods == calculate_claimable_periods(s, who, current_block)
        periods == periods_to_claim(claimable_periods)
        amount_to_claim == saturating_mul(UbiAmount, periods)
        c == cleanup_expired_batches(s, who, current_block)
        s1 == IF c.expired > 0
              THEN deposit_event(c.store, [type |-> "Expired", who |-> who, amount |-> c.expired])
              ELSE c.store
        expires_at == saturating_add(current_block, ExpirationBlocks)
        m == claim_append(s1.Balances[who], amount_to_claim, expires_at)
        s2 == [s1 EXCEPT !.Balances[who] = m.batches,
                         !.LastClaim[who] = expires_at,
                         !.TotalSupply = saturating_add(@, amount_to_claim)]
        s3 == [s2 EXCEPT !.ReputationStore[who] = claim_update_reputation(@, current_block)]
        s4 == deposit_event(s3, [type |-> "Claimed", who |-> who, amount |-> amount_to_claim,
                                 periods |-> periods, expires_at |-> expires_at])
    IN  IF ~(claimable_periods > 0)
        THEN [res |-> "NothingToClaim", store |-> s]
        ELSE IF m.res # "Ok"
             THEN [res |-> m.res, store |-> s1]
             ELSE [res |-> "Ok", store |-> s4]

\* variant of claim: the periods dropped by the backlog cap stay claimable,
\* the last claim moves forward by the periods minted only
claim_keeps_backlog(s, current_block, who) ==
    LET claimable_periods == calculate_claimable_periods(s, who, current_block)
        periods == periods_to_claim(claimable_periods)
        amount_to_claim == saturating_mul(UbiAmount, periods)
        c == cleanup_expired_batches(s, who, current_block)
        s1 == IF c.expired > 0
              THEN deposit_event(c.store, [type |-> "Expired", who |-> who, amount |-> c.expired])
              ELSE c.store
        expires_at == saturating_add(current_block, ExpirationBlocks)
        m == claim_append(s1.Balances[who], amount_to_claim, expires_at)
        s2 == [s1 EXCEPT !.Balances[who] = m.batches,
                         !.LastClaim[who] =
                             IF @ = None THEN current_block
                             ELSE saturating_add(@, periods * ClaimPeriodBlocks),
                         !.TotalSupply = saturating_add(@, amount_to_claim)]
        s3 == [s2 EXCEPT !.ReputationStore[who] = claim_update_reputation(@, current_block)]
        s4 == deposit_event(s3, [type |-> "Claimed", who |-> who, amount |-> amount_to_claim,
                                 periods |-> periods, expires_at |-> expires_at])
    IN  IF ~(claimable_periods > 0)
        THEN [res |-> "NothingToClaim", store |-> s]
        ELSE IF m.res # "Ok"
             THEN [res |-> m.res, store |-> s1]
             ELSE [res |-> "Ok", store |-> s4]

claim(s, current_block, who) ==
    LET claimable_periods == calculate_claimable_periods(s, who, current_block)
        periods == periods_to_claim(claimable_periods)
        amount_to_claim == saturating_mul(UbiAmount, periods)
        c == cleanup_expired_batches(s, who, current_block)
        s1 == IF c.expired > 0
              THEN deposit_event(c.store, [type |-> "Expired", who |-> who, amount |-> c.expired])
              ELSE c.store
        expires_at == saturating_add(current_block, ExpirationBlocks)
        m == claim_append(s1.Balances[who], amount_to_claim, expires_at)
        s2 == [s1 EXCEPT !.Balances[who] = m.batches,
                         !.LastClaim[who] = current_block,
                         !.TotalSupply = saturating_add(@, amount_to_claim)]
        s3 == [s2 EXCEPT !.ReputationStore[who] = claim_update_reputation(@, current_block)]
        s4 == deposit_event(s3, [type |-> "Claimed", who |-> who, amount |-> amount_to_claim,
                                 periods |-> periods, expires_at |-> expires_at])
    IN  IF ~(claimable_periods > 0)
        THEN [res |-> "NothingToClaim", store |-> s]
        ELSE IF m.res # "Ok"
             THEN [res |-> m.res, store |-> s1]
             ELSE [res |-> "Ok", store |-> s4]

\* variant of burn_validation: the amount is checked before the recipient
burn_validation_amount_first(from, to, amount) ==
    IF ~(amount > 0) THEN "AmountMustBePositive"
    ELSE IF ~(from # to) THEN "CannotBurnToSelf"
    ELSE "Ok"

\* burn: the two ensure! checks that precede any write
burn_validation(from, to, amount) ==
    IF ~(from # to) THEN "CannotBurnToSelf"
    ELSE IF ~(amount > 0) THEN "AmountMustBePositive"
    ELSE "Ok"

\* variant of burn_update_sender: every burn counts as a new recipient
burn_update_sender_counts_every_burn(s, from, amount, is_new_recipient, current_block) ==
    LET rep0 == s.ReputationStore[from]
        rep1 == [rep0 EXCEPT
                    !.burns_sent_count = saturating_add(@, 1),
                    !.burns_sent_volume = saturating_add(@, amount),
                    !.unique_recipients_count = saturating_add(@, 1),
                    !.first_activity = IF @ = 0 THEN current_block ELSE @]
    IN  [s EXCEPT !.ReputationStore[from] = [rep1 EXCEPT !.score = recalculate_score(rep1)]]

\* variant of burn_update_sender: a burn restarts the claim period of the sender
burn_update_sender_restarts_period(s, from, amount, is_new_recipient, current_block) ==
    LET rep0 == s.ReputationStore[from]
        rep1 == [rep0 EXCEPT
                    !.burns_sent_count = saturating_add(@, 1),
                    !.burns_sent_volume = saturating_add(@, amount),
                    !.unique_recipients_count =
                        IF is_new_recipient THEN saturating_add(@, 1) ELSE @,
                    !.first_activity = IF @ = 0 THEN current_block ELSE @]
    IN  [s EXCEPT !.ReputationStore[from] = [rep1 EXCEPT !.score = recalculate_score(rep1)],
                  !.LastClaim[from] = current_block]

\* burn: the closure passed to ReputationStore::mutate(&from, ..)
burn_update_sender(s, from, amount, is_new_recipient, current_block) ==
    LET rep0 == s.ReputationStore[from]
        rep1 == [rep0 EXCEPT
                    !.burns_sent_count = saturating_add(@, 1),
                    !.burns_sent_volume = saturating_add(@, amount),
                    !.unique_recipients_count =
                        IF is_new_recipient THEN saturating_add(@, 1) ELSE @,
                    !.first_activity = IF @ = 0 THEN current_block ELSE @]
    IN  [s EXCEPT !.ReputationStore[from] = [rep1 EXCEPT !.score = recalculate_score(rep1)]]

\* variant of burn_update_recipient: the volume received is counted weighted
burn_update_recipient_weighted_volume(s, to, amount, weighted_amount, current_block) ==
    LET rep0 == s.ReputationStore[to]
        rep1 == [rep0 EXCEPT
                    !.burns_received_count = saturating_add(@, 1),
                    !.burns_received_volume = saturating_add(@, weighted_amount),
                    !.weighted_received = saturating_add(@, weighted_amount),
                    !.first_activity = IF @ = 0 THEN current_block ELSE @]
    IN  [s EXCEPT !.ReputationStore[to] = [rep1 EXCEPT !.score = recalculate_score(rep1)]]

\* variant of burn_update_recipient: the burned amount is credited to the
\* recipient as a batch of its own
burn_update_recipient_credits(s, to, amount, weighted_amount, current_block) ==
    LET rep0 == s.ReputationStore[to]
        rep1 == [rep0 EXCEPT
                    !.burns_received_count = saturating_add(@, 1),
                    !.burns_received_volume = saturating_add(@, amount),
                    !.weighted_received = saturating_add(@, weighted_amount),
                    !.first_activity = IF @ = 0 THEN current_block ELSE @]
    IN  [s EXCEPT !.ReputationStore[to] = [rep1 EXCEPT !.score = recalculate_score(rep1)],
                  !.Balances[to] = Append(@, TokenBatch(amount,
                                       saturating_add(current_block, ExpirationBlocks))),
                  !.TotalSupply = saturating_add(@, amount)]

\* burn: the closure passed to ReputationStore::mutate(&to, ..)
burn_update_recipient(s, to, amount, weighted_amount, current_block) ==
    LET rep0 == s.ReputationStore[to]
        rep1 == [rep0 EXCEPT
                    !.burns_received_count = saturating_add(@, 1),
                    !.burns_received_volume = saturating_add(@, amount),
                    !.weighted_received = saturating_add(@, weighted_amount),
                    !.first_activity = IF @ = 0 THEN current_block ELSE @]
    IN  [s EXCEPT !.ReputationStore[to] = [rep1 EXCEPT !.score = recalculate_score(rep1)]]

\* variant of burn: the sender's weight is read after the sender's own record
\* has been updated with this burn
burn_weight_after_update(s, current_block, from, to, amount) ==
    LET v == burn_validation(from, to, amount)
        c == cleanup_expired_batches(s, from, current_block)
        s1 == IF c.expired > 0
              THEN deposit_event(c.store, [type |-> "Expired", who |-> from, amount |-> c.expired])
              ELSE c.store
        f == burn_fifo(s1, from, amount, current_block)
        s2 == [f.store EXCEPT !.TotalSupply = saturating_sub(@, amount)]
        is_new_recipient == ~s2.UniqueRecipients[from][to]
        s3 == IF is_new_recipient
              THEN [s2 EXCEPT !.UniqueRecipients[from][to] = TRUE]
              ELSE s2
        s4 == burn_update_sender(s3, from, amount, is_new_recipient, current_block)
        sender_score == s4.ReputationStore[from].score
        sender_weight == calculate_sender_weight(sender_score)
        weighted_amount == saturating_mul(amount, sender_weight) \div 1000
        s5 == burn_update_recipient(s4, to, amount, weighted_amount, current_block)
        s6 == deposit_event(s5, [type |-> "Burned", from |-> from, to |-> to, amount |-> amount])
    IN  IF v # "Ok"
        THEN [res |-> v, store |-> s]
        ELSE IF f.res # "Ok"
             THEN [res |-> f.res, store |-> f.store]
             ELSE [res |-> "Ok", store |-> s6]

burn(s, current_block, from, to, amount) ==
    LET v == burn_validation(from, to, amount)
        c == cleanup_expired_batches(s, from, current_block)
        s1 == IF c.expired > 0
              THEN deposit_event(c.store, [type |-> "Expired", who |-> from, amount |-> c.expired])
              ELSE c.store
        f == burn_fifo(s1, from, amount, current_block)
        s2 == [f.store EXCEPT !.TotalSupply = saturating_sub(@, amount)]
        sender_score == s2.ReputationStore[from].score
        sender_weight == calculate_sender_weight(sender_score)
        weighted_amount == saturating_mul(amount, sender_weight) \div 1000
        is_new_recipient == ~s2.UniqueRecipients[from][to]
        s3 == IF is_new_recipient
              THEN [s2 EXCEPT !.UniqueRecipients[from][to] = TRUE]
              ELSE s2
        s4 == burn_update_sender(s3, from, amount, is_new_recipient, current_block)
        s5 == burn_update_recipient(s4, to, amount, weighted_amount, current_block)
        s6 == deposit_event(s5, [type |-> "Burned", from |-> from, to |-> to, amount |-> amount])
    IN  IF v # "Ok"
        THEN [res |-> v, store |-> s]
        ELSE IF f.res # "Ok"
             THEN [res |-> f.res, store |-> f.store]
             ELSE [res |-> "Ok", store |-> s6]

(***************************************************************************)
(* The read-only queries of impl Pallet that predict a claim.              *)
(***************************************************************************)
can_claim(s, who, current_block) == calculate_claimable_periods(s, who, current_block) > 0

\* variant of claimable_periods: the backlog cap is not applied
claimable_periods_uncapped(s, who, current_block) ==
    calculate_claimable_periods(s, who, current_block)

claimable_periods(s, who, current_block) ==
    LET periods == calculate_claimable_periods(s, who, current_block)
    IN  Min(periods, MaxBacklogPeriods)

claimable_amount(s, who, current_block) ==
    LET periods == claimable_periods(s, who, current_block)
    IN  saturating_mul(UbiAmount, periods)

(***************************************************************************)
(* impl ValidateUnsigned: the admission check the transaction pool runs on *)
(* an unsigned call before it is included.  A verdict is either            *)
(* InvalidTransaction::Custom(code) or a ValidTransaction that provides    *)
(* one tag.                                                                *)
(***************************************************************************)
InvalidTransaction(code) == [valid |-> FALSE, code |-> code, provides |-> <<>>]

\* ValidTransaction::with_tag_prefix(prefix).and_provides(tag)
ValidTransaction(prefix, tag) == [valid |-> TRUE, code |-> 0, provides |-> <<prefix, tag>>]

\* validate_unsigned, arm Call::claim { account }
validate_unsigned_claim(s, current_block, account) ==
    LET claimable == calculate_claimable_periods(s, account, current_block)
    IN  IF claimable = 0
        THEN InvalidTransaction(1)
        ELSE ValidTransaction("UbiClaim", <<account, current_block \div ClaimPeriodBlocks>>)

\* variant of validate_unsigned_burn: the balance check counts expired batches
validate_unsigned_burn_total_balance(s, current_block, from, to, amount) ==
    IF from = to THEN InvalidTransaction(2)
    ELSE IF amount = 0 THEN InvalidTransaction(3)
    ELSE IF total_balance(s, from) < amount THEN InvalidTransaction(4)
    ELSE ValidTransaction("UbiBurn", <<from, current_block>>)

\* validate_unsigned, arm Call::burn { from, to, amount }
validate_unsigned_burn(s, current_block, from, to, amount) ==
    IF from = to THEN InvalidTransaction(2)
    ELSE IF amount = 0 THEN InvalidTransaction(3)
    ELSE LET balance == spendable_balance(s, from, current_block)
         IN  IF balance < amount
             THEN InvalidTransaction(4)
             ELSE ValidTransaction("UbiBurn", <<from, current_block>>)

(***************************************************************************)
(* The remaining getters of impl Pallet, and what a read leaves in         *)
(* storage.                                                                *)
(***************************************************************************)
reputation_score(s, who) == s.ReputationStore[who].score

has_burned_to(s, sender, recipient) == s.UniqueRecipients[sender][recipient]

\* #[pallet::getter(fn total_supply)]
total_supply(s) == s.TotalSupply

\* validate_unsigned as a whole: the match on the call
validate_unsigned(s, current_block, call) ==
    IF call.name = "claim"
    THEN validate_unsigned_claim(s, current_block, call.account)
    ELSE validate_unsigned_burn(s, current_block, call.from, call.to, call.amount)

\* every query asked for the pair (who, other) at the current block
queries(s, who, other, current_block) ==
    [ spendable_balance |-> spendable_balance(s, who, current_block),
      total_balance     |-> total_balance(s, who),
      can_claim         |-> can_claim(s, who, current_block),
      claimable_periods |-> claimable_periods(s, who, current_block),
      claimable_amount  |-> claimable_amount(s, who, current_block),
      reputation_score  |-> reputation_score(s, who),
      has_burned_to     |-> has_burned_to(s, who, other),
      total_supply      |-> total_supply(s) ]

\* variant of storage_after_read: a read sweeps the expired batches of `who`
storage_after_read_reaping(s, who, current_block) ==
    LET c == cleanup_expired_batches(s, who, current_block)
    IN  IF c.expired > 0
        THEN deposit_event(c.store, [type |-> "Expired", who |-> who, amount |-> c.expired])
        ELSE c.store

\* the storage and the events a read on `who` leaves behind: validate_unsigned
\* and the queries call only ::get on the storage items and on the Config
\* getters, never insert, mutate, try_mutate or deposit_event
storage_after_read(s, who, current_block) == s

\* variant of with_storage_layer: the writes of a failed call are kept
without_storage_layer(s, out) == out.store

\* #[pallet::call] runs every dispatchable in a storage layer: the writes and
\* the deposited events of a call that returns Err are discarded
with_storage_layer(s, out) == IF out.res = "Ok" THEN out.store ELSE s

(***************************************************************************)
(* The state machine.                                                      *)
(***************************************************************************)
Commit(s) ==
    /\ Balances' = s.Balances
    /\ LastClaim' = s.LastClaim
    /\ ReputationStore' = s.ReputationStore
    /\ UniqueRecipients' = s.UniqueRecipients
    /\ TotalSupply' = s.TotalSupply
    /\ events' = s.events

Init ==
    /\ cfg \in Configs
    /\ height = 1
    /\ Balances = [a \in Accounts |-> <<>>]
    /\ LastClaim = [a \in Accounts |-> None]
    /\ ReputationStore = [a \in Accounts |-> DefaultReputation]
    /\ UniqueRecipients = [a \in Accounts |-> [b \in Accounts |-> FALSE]]
    /\ TotalSupply = 0
    /\ events = <<>>
    /\ last = [op |-> "none", who |-> 0, res |-> "Ok"]

\* an unsigned claim extrinsic for `who` is dispatched at the current block
Claim(who) ==
    LET out == claim(Store, height, who)
    IN  /\ Commit(with_storage_layer(Store, out))
        /\ last' = [op |-> "claim", who |-> who, res |-> out.res]
        /\ UNCHANGED <<cfg, height>>

\* an unsigned burn extrinsic is dispatched at the current block
Burn(from, to, amount) ==
    LET out == burn(Store, height, from, to, amount)
    IN  /\ Commit(with_storage_layer(Store, out))
        /\ last' = [op |-> "burn", who |-> from, res |-> out.res]
        /\ UNCHANGED <<cfg, height>>

\* the host starts the next block: the block number grows
NextBlock ==
    /\ height < MaxHeight
    /\ height' = height + 1
    /\ events' = <<>>
    /\ last' = [op |-> "block", who |-> 0, res |-> "Ok"]
    /\ UNCHANGED <<cfg, Balances, LastClaim, ReputationStore, UniqueRecipients, TotalSupply>>

Next ==
    \/ \E who \in Accounts : Claim(who)
    \/ \E from \in Accounts, to \in Accounts, amount \in BurnAmounts : Burn(from, to, amount)
    \/ NextBlock

Spec == Init /\ [][Next]_vars

(***************************************************************************)
(* A second specification: one wallet over a longer run of blocks under    *)
(* the ratio of the shipped runtimes, ExpirationBlocks = 7 *               *)
(* ClaimPeriodBlocks.  ALICE claims and burns to BOB, who only receives.   *)
(* With a claim period of one block the streak grace period, the backlog   *)
(* cap and a ledger of seven live batches all happen within MaxHeightLong  *)
(* blocks.                                                                 *)
(***************************************************************************)
\* the block number runs from 1 to MaxHeightLong in SpecLong
MaxHeightLong == 8

LongConfig ==
    [UbiAmount |-> 50, ClaimPeriodBlocks |-> 1, ExpirationBlocks |-> 7, MaxBacklogPeriods |-> 2]

InitLong ==
    /\ cfg = LongConfig
    /\ height = 1
    /\ Balances = [a \in Accounts |-> <<>>]
    /\ LastClaim = [a \in Accounts |-> None]
    /\ ReputationStore = [a \in Accounts |-> DefaultReputation]
    /\ UniqueRecipients = [a \in Accounts |-> [b \in Accounts |-> FALSE]]
    /\ TotalSupply = 0
    /\ events = <<>>
    /\ last = [op |-> "none", who |-> 0, res |-> "Ok"]

\* the host starts the next block of the longer run
NextBlockLong ==
    /\ height < MaxHeightLong
    /\ height' = height + 1
    /\ events' = <<>>
    /\ last' = [op |-> "block", who |-> 0, res |-> "Ok"]
    /\ UNCHANGED <<cfg, Balances, LastClaim, ReputationStore, UniqueRecipients, TotalSupply>>

NextLong ==
    \/ Claim(ALICE)
    \/ \E amount \in BurnAmounts : Burn(ALICE, BOB, amount)
    \/ NextBlockLong

SpecLong == InitLong /\ [][NextLong]_vars

(***************************************************************************)
(* A third specification: ALICE claims whenever she likes and nothing is   *)
(* burned, under LongConfig, for more blocks than MAX_BATCHES.  Burning    *)
(* only removes batches, so this is the run in which a ledger holds the    *)
(* most batches it can hold.                                               *)
(***************************************************************************)
\* the block number runs from 1 to MaxHeightClaims in SpecClaims
MaxHeightClaims == 12

\* the host starts the next block of the claims-only run
NextBlockClaims ==
    /\ height < MaxHeightClaims
    /\ height' = height + 1
    /\ events' = <<>>
    /\ last' = [op |-> "block", who |-> 0, res |-> "Ok"]
    /\ UNCHANGED <<cfg, Balances, LastClaim, ReputationStore, UniqueRecipients, TotalSupply>>

NextClaims ==
    \/ Claim(ALICE)
    \/ NextBlockClaims

SpecClaims == InitLong /\ [][NextClaims]_vars

\* the configuration of the pallet's unit tests
TestConfig ==
    [UbiAmount |-> 100, ClaimPeriodBlocks |-> 100, ExpirationBlocks |-> 700, MaxBacklogPeriods |-> 3]

(***************************************************************************)
(* A fourth specification: the claims-only run started under LongConfig or *)
(* under a configuration whose expiration window holds more claims than    *)
(* MAX_BATCHES, so that the limit of the ledger is reached.                *)
(***************************************************************************)
WideConfig ==
    [UbiAmount |-> 50, ClaimPeriodBlocks |-> 1, ExpirationBlocks |-> 11, MaxBacklogPeriods |-> 2]

InitLedger ==
    /\ cfg \in {LongConfig, WideConfig}
    /\ height = 1
    /\ Balances = [a \in Accounts |-> <<>>]
    /\ LastClaim = [a \in Accounts |-> None]
    /\ ReputationStore = [a \in Accounts |-> DefaultReputation]
    /\ UniqueRecipients = [a \in Accounts |-> [b \in Accounts |-> FALSE]]
    /\ TotalSupply = 0
    /\ events = <<>>
    /\ last = [op |-> "none", who |-> 0, res |-> "Ok"]

SpecLedger == InitLedger /\ [][NextClaims]_vars

(***************************************************************************)
(* A fifth specification, started from the state ALICE is in after she has *)
(* burned to MAX_UNIQUE_RECIPIENTS distinct recipients.  Under LongConfig  *)
(* she claimed UbiAmount in each of the blocks 1 .. VeteranBlocks and, in  *)
(* the same block, burned it one unit at a time, every unit to a recipient *)
(* she had not burned to before; none of them was BOB.  Every batch was    *)
(* spent in the block it was minted in, so her ledger and the total supply *)
(* are empty; the run goes on from the next block.                         *)
(***************************************************************************)
\* the blocks ALICE needs to mint one unit for each of the recipients
VeteranBlocks == MAX_UNIQUE_RECIPIENTS \div LongConfig.UbiAmount

VeteranReputation ==
    [ burns_sent_count |-> MAX_UNIQUE_RECIPIENTS,
      burns_sent_volume |-> MAX_UNIQUE_RECIPIENTS,
      burns_received_count |-> 0, burns_received_volume |-> 0,
      first_activity |-> 1, weighted_received |-> 0,
      unique_recipients_count |-> MAX_UNIQUE_RECIPIENTS,
      claim_streak |-> VeteranBlocks,
      last_claim_period |-> VeteranBlocks \div LongConfig.ClaimPeriodBlocks,
      score |-> MAX_UNIQUE_RECIPIENTS * POINTS_PER_UNIQUE_RECIPIENT
                  + MAX_UNIQUE_RECIPIENTS
                  + VeteranBlocks * POINTS_PER_STREAK_DAY ]

InitVeteran ==
    /\ cfg = LongConfig
    /\ height = VeteranBlocks + 1
    /\ Balances = [a \in Accounts |-> <<>>]
    /\ LastClaim = [a \in Accounts |-> IF a = ALICE THEN VeteranBlocks ELSE None]
    /\ ReputationStore =
           [a \in Accounts |-> IF a = ALICE THEN VeteranReputation ELSE DefaultReputation]
    /\ UniqueRecipients = [a \in Accounts |-> [b \in Accounts |-> FALSE]]
    /\ TotalSupply = 0
    /\ events = <<>>
    /\ last = [op |-> "none", who |-> 0, res |-> "Ok"]

\* the host starts the next block: MaxHeight more blocks are run
NextBlockVeteran ==
    /\ height < VeteranBlocks + MaxHeight
    /\ height' = height + 1
    /\ events' = <<>>
    /\ last' = [op |-> "block", who |-> 0, res |-> "Ok"]
    /\ UNCHANGED <<cfg, Balances, LastClaim, ReputationStore, UniqueRecipients, TotalSupply>>

NextVeteran ==
    \/ Claim(ALICE)
    \/ \E amount \in BurnAmounts : Burn(ALICE, BOB, amount)
    \/ NextBlockVeteran

SpecVeteran == InitVeteran /\ [][NextVeteran]_vars

(***************************************************************************)
(* A sixth specification: Spec together with the reads.  The transaction   *)
(* pool validates unsigned calls and a client asks the queries at any      *)
(* point between the dispatched calls.                                     *)
(***************************************************************************)
Calls ==
    [name : {"claim"}, account : Accounts]
        \cup [name : {"burn"}, from : Accounts, to : Accounts, amount : BurnAmounts]

\* the storage a read finds: the items of the pallet and the events deposited
\* so far in the block
StoreAndEvents == [Store EXCEPT !.events = events]

\* the account whose ledger the validation of `call` reads
CallSubject(call) == IF call.name = "claim" THEN call.account ELSE call.from

\* the transaction pool validates an unsigned call at the current block
ValidateUnsigned(call) ==
    LET verdict == validate_unsigned(Store, height, call)
    IN  /\ verdict.code \in 0 .. 4
        /\ Commit(storage_after_read(StoreAndEvents, CallSubject(call), height))
        /\ last' = [op |-> "read", who |-> 0, res |-> "Ok"]
        /\ UNCHANGED <<cfg, height>>

\* a client asks every query about `who` at the current block
Query(who, other) ==
    LET answer == queries(Store, who, other, height)
    IN  /\ answer.total_supply = TotalSupply
        /\ Commit(storage_after_read(StoreAndEvents, who, height))
        /\ last' = [op |-> "read", who |-> 0, res |-> "Ok"]
        /\ UNCHANGED <<cfg, height>>

NextReads ==
    \/ Next
    \/ \E call \in Calls : ValidateUnsigned(call)
    \/ \E who \in Accounts, other \in Accounts : Query(who, other)

SpecReads == Init /\ [][NextReads]_vars

(***************************************************************************)
(* Quantities the properties are stated with, computed from the stored     *)
(* batches by index sets rather than by the pallet's folds.                *)
(***************************************************************************)
RECURSIVE SumOver(_, _)
SumOver(batches, I) ==
    IF I = {}
    THEN 0
    ELSE LET i == CHOOSE j \in I : TRUE
         IN  batches[i].amount + SumOver(batches, I \ {i})

LiveIdx(batches, h) == { i \in 1 .. Len(batches) : batches[i].expires_at > h }
ExpiredIdx(batches, h) == { i \in 1 .. Len(batches) : batches[i].expires_at <= h }

StoredSum(a) == SumOver(Balances[a], 1 .. Len(Balances[a]))
LiveSum(a) == SumOver(Balances[a], LiveIdx(Balances[a], height))
ExpiredSum(a) == SumOver(Balances[a], ExpiredIdx(Balances[a], height))

RECURSIVE SumAccounts(_, _)
SumAccounts(f, S) ==
    IF S = {}
    THEN 0
    ELSE LET a == CHOOSE b \in S : TRUE
         IN  f[a] + SumAccounts(f, S \ {a})

Dispatched == last.op \in {"claim", "burn"}
Succeeded == Dispatched /\ last.res = "Ok"

\* the Claimed or Burned event that closes the events of a successful call
LastEvent == events[Len(events)]

storeVars == <<Balances, LastClaim, ReputationStore, UniqueRecipients, TotalSupply>>

C2_SupplyIsSpendableSum ==
    Succeeded =>
        TotalSupply = SumAccounts([a \in Accounts |-> spendable_balance(Store, a, height)],
                                  Accounts)

(***************************************************************************)
(* C3.  A successful Burn(a, b, x) decreases spendable_balance(a), taken   *)
(* at the height of the burn before and after, by exactly x, leaves        *)
(* spendable_balance(b) unchanged and decreases TotalSupply by exactly x.  *)
(***************************************************************************)
C3_BurnConservation ==
    [][(last'.op = "burn" /\ last'.res = "Ok") =>
          LET a == LastEvent'.from
              b == LastEvent'.to
              x == LastEvent'.amount
          IN  /\ spendable_balance(Store', a, height) + x = spendable_balance(Store, a, height)
              /\ spendable_balance(Store', b, height) = spendable_balance(Store, b, height)
              /\ TotalSupply' + x = TotalSupply]_vars

(***************************************************************************)
(* C4.  Non-transferability: the stored batches and the spendable balance  *)
(* of an account b grow only in a successful Claim(b); a successful        *)
(* Burn(a, b, x) leaves b's ledger as it was.                              *)
(***************************************************************************)
C4_NonTransferable ==
    [][/\ \A b \in Accounts :
            (\/ StoredSum(b)' > StoredSum(b)
             \/ Len(Balances'[b]) > Len(Balances[b])
             \/ spendable_balance(Store', b, height') > spendable_balance(Store, b, height))
            => (last'.op = "claim" /\ last'.who = b /\ last'.res = "Ok")
       /\ (last'.op = "burn" /\ last'.res = "Ok") =>
            Balances'[LastEvent'.to] = Balances[LastEvent'.to]]_vars

\* a burn has just succeeded towards a recipient that holds tokens of its own
C4_Witness ==
    /\ last.op = "burn" /\ last.res = "Ok"
    /\ Balances[LastEvent.to] # <<>>
    /\ Balances[LastEvent.from] # <<>>

(***************************************************************************)
(* C5.  No double claim: a Claim(a) dispatched at a height H' with         *)
(* H <= H' < H + ClaimPeriodBlocks, H being the height of a's last         *)
(* successful claim, fails with NothingToClaim, leaves the whole store     *)
(* unchanged and deposits no event.                                        *)
(***************************************************************************)
C5_NoDoubleClaim ==
    [][\A a \in Accounts :
          (/\ last'.op = "claim" /\ last'.who = a
           /\ LastClaim[a] # None
           /\ LastClaim[a] <= height /\ height < LastClaim[a] + ClaimPeriodBlocks)
          => (/\ last'.res = "NothingToClaim"
              /\ UNCHANGED storeVars
              /\ events' = <<>>)]_vars

\* a claim has just been refused at a block after the block of the last claim
C5_Witness ==
    /\ last.op = "claim" /\ last.res = "NothingToClaim"
    /\ LastClaim[last.who] # None
    /\ LastClaim[last.who] < height

(***************************************************************************)
(* C6.  What a successful Claim(a) at height H commits, with               *)
(* p = min(periodsSince, MaxBacklogPeriods) and mint = UbiAmount * p.      *)
(***************************************************************************)
PeriodsSince(a) ==
    IF LastClaim[a] = None THEN 1 ELSE (height - LastClaim[a]) \div ClaimPeriodBlocks

MintOf(a) ==
    UbiAmount * (IF PeriodsSince(a) < MaxBacklogPeriods THEN PeriodsSince(a)
                                                        ELSE MaxBacklogPeriods)

\* the part of the claim that does not speak of the growth of the balance
ClaimCommits(a) ==
    /\ \E i \in 1 .. Len(Balances'[a]) :
          /\ Balances'[a][i] = [amount |-> MintOf(a), expires_at |-> height + ExpirationBlocks]
          /\ \A j \in 1 .. Len(Balances'[a]) :
                Balances'[a][j].expires_at = height + ExpirationBlocks => j = i
    /\ TotalSupply' = TotalSupply + MintOf(a) - ExpiredSum(a)
    /\ LastClaim'[a] = height
    /\ LastEvent' = [type |-> "Claimed", who |-> a, amount |-> MintOf(a),
                     periods |-> MintOf(a) \div UbiAmount,
                     expires_at |-> height + ExpirationBlocks]

\* C6 as stated: spendable_balance(a), like TotalSupply, grows by the minted
\* amount net of a's own reaped expired batches
C6_ClaimMints_Original ==
    [][\A a \in Accounts :
          (last'.op = "claim" /\ last'.who = a /\ last'.res = "Ok") =>
              /\ ClaimCommits(a)
              /\ spendable_balance(Store', a, height)
                    = spendable_balance(Store, a, height) + MintOf(a) - ExpiredSum(a)]_vars

\* C6 as amended: spendable_balance(a), taken at H before and after, grows by
\* exactly the minted amount (the reaped batches were not part of it); it is
\* total_balance(a) and TotalSupply that grow by the mint net of the reaped
\* expired batches
C6_ClaimMints ==
    [][\A a \in Accounts :
          (last'.op = "claim" /\ last'.who = a /\ last'.res = "Ok") =>
              /\ ClaimCommits(a)
              /\ spendable_balance(Store', a, height)
                    = spendable_balance(Store, a, height) + MintOf(a)
              /\ total_balance(Store', a)
                    = total_balance(Store, a) + MintOf(a) - ExpiredSum(a)]_vars

\* a claim has just succeeded that reaped an expired batch and minted a backlog
\* cut down to the cap: the account claimed at blocks 1 and 5 only, two claim
\* periods apart, under a backlog cap of one period
C6_Witness ==
    /\ last.op = "claim" /\ last.res = "Ok"
    /\ Len(events) = 2 /\ events[1].type = "Expired"
    /\ ClaimPeriodBlocks = 2 /\ MaxBacklogPeriods = 1
    /\ events[2].periods = 1
    /\ height = 5
    /\ ReputationStore[last.who].claim_streak = 2
    /\ ReputationStore[last.who].first_activity = 1
    /\ ReputationStore[last.who].burns_received_count = 0
    /\ ReputationStore[last.who].burns_sent_count = 0

(***************************************************************************)
(* C7.  Atomicity of failure: a Claim or Burn that returns an error leaves *)
(* the entire store unchanged and deposits no event, also when the sender  *)
(* of a Burn failing with InsufficientBalance held expired batches.        *)
(***************************************************************************)
C7_FailureIsAtomic ==
    [][(last'.op \in {"claim", "burn"} /\ last'.res # "Ok") =>
          (UNCHANGED storeVars /\ events' = <<>>)]_vars

\* a burn has just failed with InsufficientBalance and the sender's expired
\* batch is still stored
C7_Witness ==
    /\ last.op = "burn" /\ last.res = "InsufficientBalance"
    /\ ExpiredSum(last.who) > 0

(***************************************************************************)
(* C8.  Burn errors are decided in a fixed order: CannotBurnToSelf when    *)
(* from = to (also for amount 0), else AmountMustBePositive when amount is *)
(* 0, else InsufficientBalance exactly when the live batches of from sum   *)
(* to less than amount, else the burn succeeds.                            *)
(***************************************************************************)
ExpectedBurnResult(from, to, amount) ==
    IF from = to THEN "CannotBurnToSelf"
    ELSE IF amount = 0 THEN "AmountMustBePositive"
    ELSE IF LiveSum(from) < amount THEN "InsufficientBalance"
    ELSE "Ok"

\* in every reachable state, whatever Burn is dispatched returns the result
\* the order above gives
C8_BurnErrorOrder ==
    \A from \in Accounts, to \in Accounts, amount \in BurnAmounts :
        burn(Store, height, from, to, amount).res = ExpectedBurnResult(from, to, amount)

\* a burn has just been refused for insufficient balance although the sender's
\* ledger is not empty
C8_Witness ==
    /\ last.op = "burn" /\ last.res = "InsufficientBalance"
    /\ LiveSum(last.who) > 0

(***************************************************************************)
(* C9.  Expired tokens are never spendable: a batch with expires_at <= H   *)
(* adds nothing to spendable_balance; the FIFO consumption never touches   *)
(* it, reaped or not; a Burn of more than the sum of the sender's batches  *)
(* with expires_at > H fails.                                              *)
(***************************************************************************)
C9_ExpiredNeverSpendable ==
    \A a \in Accounts :
        /\ spendable_balance(Store, a, height) = LiveSum(a)
        /\ \A x \in BurnAmounts \ {0} :
              LET f == burn_fifo(Store, a, x, height)
                  after == f.store.Balances[a]
              IN  /\ f.res = "Ok" <=> x <= LiveSum(a)
                  /\ f.res = "Ok" =>
                        /\ SumOver(after, ExpiredIdx(after, height)) = ExpiredSum(a)
                        /\ SumOver(after, LiveIdx(after, height)) = LiveSum(a) - x
        /\ \A b \in Accounts, x \in BurnAmounts :
              x > LiveSum(a) => burn(Store, height, a, b, x).res # "Ok"

\* an account holds an expired batch that is not reaped next to a live one
C9_Witness ==
    \E a \in Accounts : ExpiredSum(a) > 0 /\ LiveSum(a) > 0

C11_SweepOnActor ==
    [][(last'.op \in {"claim", "burn"} /\ last'.res = "Ok") =>
          LET a == last'.who
              E == ExpiredSum(a)
              closing == IF last'.op = "claim" THEN "Claimed" ELSE "Burned"
              delta == IF last'.op = "claim" THEN events'[Len(events')].amount
                                             ELSE 0 - events'[Len(events')].amount
          IN  /\ ExpiredIdx(Balances'[a], height) = {}
              /\ TotalSupply' = (TotalSupply - E) + delta
              /\ (E > 0) <=> (\E i \in 1 .. Len(events') : events'[i].type = "Expired")
              /\ IF E > 0
                 THEN /\ Len(events') = 2
                      /\ events'[1] = [type |-> "Expired", who |-> a, amount |-> E]
                      /\ events'[2].type = closing
                 ELSE /\ Len(events') = 1
                      /\ events'[1].type = closing]_vars

\* a burn has just swept an expired batch of the sender and then spent a live one
C11_Witness ==
    /\ last.op = "burn"
    /\ Succeeded
    /\ Len(events) = 2
    /\ events[1].type = "Expired"
    /\ events[1].who = last.who
    /\ events[2].type = "Burned"

(***************************************************************************)
(* C12.  FIFO by expiration: a successful Burn(a, _, x) takes x from the   *)
(* live batches of a in ascending expires_at order.  A live batch is       *)
(* reduced or removed only if every live batch of a that expires strictly  *)
(* earlier is removed entirely, at most one batch that survives has a      *)
(* changed amount, and no batch is left with amount zero.                  *)
(***************************************************************************)
AmountAt(batches, e) ==
    SumOver(batches, { i \in 1 .. Len(batches) : batches[i].expires_at = e })

C12_FifoByExpiration ==
    [][(last'.op = "burn" /\ last'.res = "Ok") =>
          LET a == last'.who
              pre == Balances[a]
              post == Balances'[a]
              live == LiveIdx(pre, height)
              touched == { i \in live : AmountAt(post, pre[i].expires_at) # pre[i].amount }
          IN  /\ \A i \in touched :
                    /\ AmountAt(post, pre[i].expires_at) < pre[i].amount
                    /\ \A j \in live :
                          pre[j].expires_at < pre[i].expires_at
                              => AmountAt(post, pre[j].expires_at) = 0
              /\ Cardinality({ i \in touched : AmountAt(post, pre[i].expires_at) > 0 }) <= 1
              /\ \A k \in 1 .. Len(post) :
                    /\ post[k].amount > 0
                    /\ \E i \in live : pre[i].expires_at = post[k].expires_at
              /\ SumOver(pre, live) - SumOver(post, 1 .. Len(post))
                     = events'[Len(events')].amount]_vars

\* ALICE claimed at blocks 1 and 3 (one period, then two) and has just burned
\* 2 * UbiAmount: the batch of block 1 is gone and the batch of block 3 is
\* halved
C12_Witness ==
    /\ cfg = LongConfig
    /\ height = 3
    /\ last.op = "burn"
    /\ Succeeded
    /\ LastEvent.amount = UbiAmount + UbiAmount
    /\ ReputationStore[ALICE].burns_sent_count = 1
    /\ ReputationStore[ALICE].claim_streak = 2
    /\ Balances[ALICE] = <<TokenBatch(UbiAmount, height + ExpirationBlocks)>>

StreakBonusOf(rep) == IF rep.claim_streak * 10 < 500 THEN rep.claim_streak * 10 ELSE 500

C14_ClaimDecaysScore ==
    [][(last'.op = "claim" /\ last'.res = "Ok") =>
          LET before == ReputationStore[last'.who]
              after == ReputationStore'[last'.who]
          IN  (/\ after.unique_recipients_count = before.unique_recipients_count
               /\ after.burns_sent_volume = before.burns_sent_volume
               /\ after.weighted_received = before.weighted_received
               /\ StreakBonusOf(after) = StreakBonusOf(before))
                  => after.score = (before.score * 950) \div 1000]_vars

(***************************************************************************)
(* C15.  Weight snapshot timing: in a successful Burn(from, to, x) the     *)
(* weighted_received of `to` grows by exactly floor(x * w / 1000), where w *)
(* is the weight tier of the score `from` had cached immediately before    *)
(* the burn, never the score that includes this burn's own credit.         *)
(***************************************************************************)
SenderWeightTier(score) ==
    IF score < 10 THEN 500
    ELSE IF score < 100 THEN 750
    ELSE IF score < 1000 THEN 1000
    ELSE IF score < 10000 THEN 1500
    ELSE 2000

C15_WeightSnapshot ==
    [][(last'.op = "burn" /\ last'.res = "Ok") =>
          LET e == events'[Len(events')]
              w == SenderWeightTier(ReputationStore[e.from].score)
          IN  ReputationStore'[e.to].weighted_received
                  = ReputationStore[e.to].weighted_received + (e.amount * w) \div 1000]_vars

\* the first burn of a sender that never received anything has just moved the
\* sender's score from the 750 tier (streak bonus only) into the 1000 tier,
\* and the recipient was credited at the 750 tier
C15_Witness ==
    /\ last.op = "burn"
    /\ Succeeded
    /\ ReputationStore[LastEvent.from].burns_sent_count = 1
    /\ ReputationStore[LastEvent.from].weighted_received = 0
    /\ ReputationStore[LastEvent.from].score >= 100
    /\ ReputationStore[LastEvent.to].burns_received_count = 1
    /\ ReputationStore[LastEvent.to].weighted_received = (LastEvent.amount * 750) \div 1000

(***************************************************************************)
(* C16.  Unique recipients: unique_recipients_count(a) is the number of    *)
(* accounts b with (a, b) in UniqueRecipients; (a, b) enters the set with  *)
(* a successful Burn(a, b, _) and in no other way, is never removed, and a *)
(* second or later Burn(a, b, _) does not increment the count.             *)
(***************************************************************************)
RecipientsOf(a) == { b \in Accounts : UniqueRecipients[a][b] }

C17_StreakRule ==
    [][\A a \in Accounts :
          LET before == ReputationStore[a]
              after == ReputationStore'[a]
              period == height \div ClaimPeriodBlocks
              gap == period - before.last_claim_period
          IN  IF last'.op = "claim" /\ last'.res = "Ok" /\ last'.who = a
              THEN /\ after.claim_streak = IF gap <= 3 THEN before.claim_streak + 1 ELSE 1
                   /\ after.last_claim_period = period
              ELSE /\ after.claim_streak = before.claim_streak
                   /\ after.last_claim_period = before.last_claim_period]_vars

\* ALICE, who has claimed and burned before, has just claimed after a gap of
\* more than three periods: the streak is back to 1
C17_Witness ==
    /\ last.op = "claim"
    /\ Succeeded
    /\ last.who = ALICE
    /\ ReputationStore[ALICE].claim_streak = 1
    /\ ReputationStore[ALICE].first_activity < height
    /\ ReputationStore[ALICE].burns_sent_count > 0

(***************************************************************************)
(* C18.  Admission agrees with commit for Burn: in every reachable state   *)
(* validate_unsigned accepts Burn(from, to, amount) if and only if the     *)
(* handler succeeds on the same state at the same height; it rejects with  *)
(* code 2 exactly when the handler fails CannotBurnToSelf, with code 3     *)
(* exactly when it fails AmountMustBePositive and with code 4 exactly when *)
(* it fails InsufficientBalance.                                           *)
(***************************************************************************)
C18_BurnAdmission ==
    \A from \in Accounts, to \in Accounts, amount \in BurnAmounts :
        LET v == validate_unsigned_burn(Store, height, from, to, amount)
            r == burn(Store, height, from, to, amount).res
        IN  /\ v.valid <=> (r = "Ok")
            /\ (~v.valid /\ v.code = 2) <=> (r = "CannotBurnToSelf")
            /\ (~v.valid /\ v.code = 3) <=> (r = "AmountMustBePositive")
            /\ (~v.valid /\ v.code = 4) <=> (r = "InsufficientBalance")

\* a sender holds an expired batch that would cover the burn, not enough live
\* tokens, and admission rejects the burn with code 4
C18_Witness ==
    \E from \in Accounts, to \in Accounts :
        /\ ExpiredSum(from) >= UbiAmount
        /\ LiveSum(from) < UbiAmount
        /\ validate_unsigned_burn(Store, height, from, to, UbiAmount) = InvalidTransaction(4)

(***************************************************************************)
(* C19.  Admission agrees with commit for Claim: validate_unsigned rejects *)
(* Claim(acct) with code 1 exactly when the handler, on the same state at  *)
(* the same height, fails with NothingToClaim; with ExpirationBlocks =     *)
(* 7 * ClaimPeriodBlocks and MAX_BATCHES = 10 every Claim that admission   *)
(* accepts succeeds when committed on that state at that height.           *)
(***************************************************************************)
C19_ClaimAdmission ==
    \A acct \in Accounts :
        LET v == validate_unsigned_claim(Store, height, acct)
            r == claim(Store, height, acct).res
        IN  /\ (~v.valid /\ v.code = 1) <=> (r = "NothingToClaim")
            /\ (ExpirationBlocks = 7 * ClaimPeriodBlocks /\ MAX_BATCHES = 10)
                   => (v.valid => r = "Ok")

\* ALICE has claimed in more blocks than MAX_BATCHES, her ledger holds seven
\* batches, the oldest of them expired, and admission accepts her next claim
C19_Witness ==
    /\ height > MAX_BATCHES
    /\ ReputationStore[ALICE].claim_streak >= MAX_BATCHES
    /\ Len(Balances[ALICE]) = 7
    /\ ExpiredSum(ALICE) > 0
    /\ validate_unsigned_claim(Store, height, ALICE).valid

(***************************************************************************)
(* C20.  Each wallet claims at most once per period: a successful Claim of *)
(* an account at height H2 falls in a later period than its previous       *)
(* successful Claim at H1, floor(H1 / ClaimPeriodBlocks) <                 *)
(* floor(H2 / ClaimPeriodBlocks), so no two committed claims of one        *)
(* account carry the same admission tag (account, floor(H /                *)
(* ClaimPeriodBlocks)).  LastClaim records the height of the previous      *)
(* successful claim.                                                       *)
(***************************************************************************)
C20_OneClaimPerPeriod ==
    [][IF last'.op = "claim" /\ last'.res = "Ok"
       THEN LET a == last'.who
            IN  /\ LastClaim' = [LastClaim EXCEPT ![a] = height]
                /\ LastClaim[a] # None =>
                      /\ LastClaim[a] \div ClaimPeriodBlocks < height \div ClaimPeriodBlocks
                      /\ validate_unsigned_claim(Store, height, a).provides
                             # <<"UbiClaim", <<a, LastClaim[a] \div ClaimPeriodBlocks>>>>
       ELSE LastClaim' = LastClaim]_vars

\* an account has just claimed for the second time, in the period that follows
\* the period of its first claim
C20_Witness ==
    /\ last.op = "claim"
    /\ Succeeded
    /\ ClaimPeriodBlocks > 1
    /\ ReputationStore[last.who].claim_streak = 2
    /\ ReputationStore[last.who].first_activity \div ClaimPeriodBlocks + 1
           = height \div ClaimPeriodBlocks

(***************************************************************************)
(* C21.  Queries predict Claim: in every reachable state can_claim(a) is   *)
(* true exactly when Claim(a) would not fail with NothingToClaim,          *)
(* claimable_periods(a) = min(periodsSince, MaxBacklogPeriods) and         *)
(* claimable_amount(a) = UbiAmount * claimable_periods(a); a successful    *)
(* Claim(a) mints claimable_amount(a) and reports claimable_periods(a) as  *)
(* read immediately before it, and immediately after it the three queries  *)
(* answer false, 0 and 0.  Stated over the store the handler returns,      *)
(* which is what Claim(a) commits.                                         *)
(***************************************************************************)
C21_QueriesPredictClaim ==
    \A a \in Accounts :
        LET out == claim(Store, height, a)
            committed == out.store.events[Len(out.store.events)]
        IN  /\ can_claim(Store, a, height) <=> (out.res # "NothingToClaim")
            /\ claimable_periods(Store, a, height)
                   = (IF PeriodsSince(a) < MaxBacklogPeriods THEN PeriodsSince(a)
                                                             ELSE MaxBacklogPeriods)
            /\ claimable_amount(Store, a, height)
                   = UbiAmount * claimable_periods(Store, a, height)
            /\ out.res = "Ok" =>
                  /\ committed.type = "Claimed"
                  /\ committed.amount = claimable_amount(Store, a, height)
                  /\ committed.periods = claimable_periods(Store, a, height)
                  /\ ~can_claim(out.store, a, height)
                  /\ claimable_periods(out.store, a, height) = 0
                  /\ claimable_amount(out.store, a, height) = 0

\* an account that missed more periods than the backlog cap holds is offered
\* the capped amount
C21_Witness ==
    \E a \in Accounts :
        /\ LastClaim[a] # None
        /\ PeriodsSince(a) > MaxBacklogPeriods
        /\ can_claim(Store, a, height)
        /\ claimable_periods(Store, a, height) = MaxBacklogPeriods
        /\ claimable_amount(Store, a, height) = UbiAmount * MaxBacklogPeriods

(***************************************************************************)
(* C22.  Bounded ledger: in every reachable state the batch sequence of    *)
(* every account has length <= MAX_BATCHES = 10; with ExpirationBlocks =   *)
(* 7 * ClaimPeriodBlocks the length never exceeds 7 and no Claim fails     *)
(* with TooManyBatches.                                                    *)
(***************************************************************************)
C22_BoundedLedger ==
    \A a \in Accounts :
        /\ Len(Balances[a]) <= 10
        /\ MAX_BATCHES = 10
        /\ ExpirationBlocks = 7 * ClaimPeriodBlocks =>
              /\ Len(Balances[a]) <= 7
              /\ last.res # "TooManyBatches"
              /\ claim(Store, height, a).res # "TooManyBatches"

\* with an expiration window of eleven periods ALICE holds ten live batches
\* and her claim has just been refused for that reason
C22_Witness ==
    /\ Len(Balances[ALICE]) = MAX_BATCHES
    /\ ExpiredSum(ALICE) = 0
    /\ last = [op |-> "claim", who |-> ALICE, res |-> "TooManyBatches"]

(***************************************************************************)
(* C23.  Burn attestation counters: a successful Burn(from, to, x) adds 1  *)
(* to burns_sent_count(from) and to burns_received_count(to) and adds x to *)
(* burns_sent_volume(from) and to burns_received_volume(to); nothing else  *)
(* changes these counters.  Hence over all accounts the volumes sent and   *)
(* received have the same sum, and so have the counts.                     *)
(***************************************************************************)
CountersBalanced ==
    /\ SumAccounts([a \in Accounts |-> ReputationStore[a].burns_sent_volume], Accounts)
           = SumAccounts([a \in Accounts |-> ReputationStore[a].burns_received_volume], Accounts)
    /\ SumAccounts([a \in Accounts |-> ReputationStore[a].burns_sent_count], Accounts)
           = SumAccounts([a \in Accounts |-> ReputationStore[a].burns_received_count], Accounts)

C23_BurnCounters ==
    [][/\ CountersBalanced'
       /\ \A a \in Accounts :
             LET before == ReputationStore[a]
                 after == ReputationStore'[a]
                 burned == last'.op = "burn" /\ last'.res = "Ok"
                 sends == burned /\ events'[Len(events')].from = a
                 receives == burned /\ events'[Len(events')].to = a
                 x == IF burned THEN events'[Len(events')].amount ELSE 0
             IN  /\ after.burns_sent_count = before.burns_sent_count + (IF sends THEN 1 ELSE 0)
                 /\ after.burns_sent_volume = before.burns_sent_volume + (IF sends THEN x ELSE 0)
                 /\ after.burns_received_count
                        = before.burns_received_count + (IF receives THEN 1 ELSE 0)
                 /\ after.burns_received_volume
                        = before.burns_received_volume + (IF receives THEN x ELSE 0)]_vars

\* both accounts have sent and received, and the volumes differ between them
C23_Witness ==
    /\ last.op = "burn"
    /\ Succeeded
    /\ \A a \in Accounts : ReputationStore[a].burns_sent_count > 0
    /\ ReputationStore[ALICE].burns_sent_volume # ReputationStore[BOB].burns_sent_volume
    /\ ReputationStore[LastEvent.to].burns_received_count > 1

(***************************************************************************)
(* C24.  Batch well-formedness: every stored batch has amount > 0, and a   *)
(* batch is stored with expires_at strictly greater than the height at     *)
(* which it is created.                                                    *)
(***************************************************************************)
C24_BatchWellFormed ==
    [][\A a \in Accounts : \A i \in 1 .. Len(Balances'[a]) :
          /\ Balances'[a][i].amount > 0
          /\ (\A j \in 1 .. Len(Balances[a]) :
                 Balances[a][j].expires_at # Balances'[a][i].expires_at)
                => Balances'[a][i].expires_at > height]_vars

\* a sender with one claim period of backlog claimed twice and has just burned
\* the whole of the older batch: the emptied batch is gone, the newer one stays
C24_Witness ==
    /\ last.op = "burn"
    /\ Succeeded
    /\ MaxBacklogPeriods = 1
    /\ LastEvent.amount = UbiAmount
    /\ LastClaim[last.who] = height
    /\ ReputationStore[last.who].claim_streak = 2
    /\ ReputationStore[last.who].burns_sent_volume = UbiAmount
    /\ Balances[last.who] = <<TokenBatch(UbiAmount, height + ExpirationBlocks)>>

(***************************************************************************)
(* C25.  Distinct, ordered expiries: in every reachable state an account   *)
(* holds at most one batch per expires_at and its stored sequence is       *)
(* strictly ascending in expires_at, so the sort of the burn path leaves   *)
(* the sequence as it is.                                                  *)
(***************************************************************************)
C25_OrderedExpiries ==
    \A a \in Accounts :
        /\ \A i \in 1 .. Len(Balances[a]), j \in 1 .. Len(Balances[a]) :
              i < j => Balances[a][i].expires_at < Balances[a][j].expires_at
        /\ sort_by_expires_at(Balances[a]) = Balances[a]

\* after a burn ALICE holds at least three batches, the oldest partly spent
C25_Witness ==
    /\ last.op = "burn"
    /\ Succeeded
    /\ Len(Balances[ALICE]) >= 3
    /\ Balances[ALICE][1].amount < Balances[ALICE][2].amount

(***************************************************************************)
(* C26.  first_activity marker: first_activity(a) = 0 if and only if a has *)
(* never successfully claimed and has never been the sender or the         *)
(* recipient of a successful Burn; it is set to the height of the first    *)
(* such activity and never changes afterwards.                             *)
(***************************************************************************)
NeverActive(a) ==
    /\ LastClaim[a] = None
    /\ ReputationStore[a].burns_sent_count = 0
    /\ ReputationStore[a].burns_received_count = 0

C26_FirstActivity ==
    [][\A a \in Accounts :
          LET before == ReputationStore[a].first_activity
              after == ReputationStore'[a].first_activity
              done == last'.op \in {"claim", "burn"} /\ last'.res = "Ok"
              party == done /\ (IF last'.op = "claim"
                                THEN last'.who = a
                                ELSE a \in { events'[Len(events')].from,
                                             events'[Len(events')].to })
          IN  /\ (after = 0) <=> NeverActive(a)'
              /\ before # 0 => after = before
              /\ before = 0 => after = (IF party THEN height ELSE 0)]_vars

\* an account whose first activity was to receive a burn has just claimed for
\* the first time, at a later height
C26_Witness ==
    /\ last.op = "claim"
    /\ Succeeded
    /\ ReputationStore[last.who].claim_streak = 1
    /\ ReputationStore[last.who].burns_sent_count = 0
    /\ ReputationStore[last.who].burns_received_count > 0
    /\ ReputationStore[last.who].first_activity < height

(***************************************************************************)
(* C27.  Events reconstruct supply and balances: TotalSupply is the sum of *)
(* Claimed.amount less the sums of Burned.amount and Expired.amount over   *)
(* all events emitted, and the stored batch amounts of an account a sum to *)
(* Claimed{a} less Burned{from = a} less Expired{a}; a successful Claim    *)
(* emits exactly one Claimed and a successful Burn exactly one Burned.     *)
(* Stated step by step: both sides are 0 initially, and every step changes *)
(* TotalSupply and each ledger sum by the net amount of the events that    *)
(* step emits.                                                             *)
(***************************************************************************)
EventOwner(e) == IF e.type = "Burned" THEN e.from ELSE e.who
SignedAmount(e) == IF e.type = "Claimed" THEN e.amount ELSE 0 - e.amount

RECURSIVE NetAmount(_, _)
NetAmount(evs, owners) ==
    IF evs = <<>>
    THEN 0
    ELSE (IF EventOwner(Head(evs)) \in owners THEN SignedAmount(Head(evs)) ELSE 0)
             + NetAmount(Tail(evs), owners)

CountOf(evs, type) == Cardinality({ i \in 1 .. Len(evs) : evs[i].type = type })

C27_EventsReconstruct ==
    [][/\ TotalSupply' - TotalSupply = NetAmount(events', Accounts)
       /\ \A a \in Accounts : StoredSum(a)' - StoredSum(a) = NetAmount(events', {a})
       /\ CountOf(events', "Claimed")
              = (IF last'.op = "claim" /\ last'.res = "Ok" THEN 1 ELSE 0)
       /\ CountOf(events', "Burned")
              = (IF last'.op = "burn" /\ last'.res = "Ok" THEN 1 ELSE 0)
       /\ last'.res # "Ok" => events' = <<>>]_vars

\* a claim has just emitted Expired and Claimed with different amounts, after
\* some account has burned tokens
C27_Witness ==
    /\ last.op = "claim"
    /\ Succeeded
    /\ Len(events) = 2
    /\ events[1].type = "Expired"
    /\ events[1].amount # events[2].amount
    /\ \E b \in Accounts : ReputationStore[b].burns_sent_volume > 0

(***************************************************************************)
(* C28.  Minimum practical sender weight: in every successful Burn the     *)
(* score the sender has cached when the weight is taken is at least 10, so *)
(* the weight applied is never 500 and is at least 750.                    *)
(***************************************************************************)
C28_MinimumSenderWeight ==
    [][(last'.op = "burn" /\ last'.res = "Ok") =>
          LET e == events'[Len(events')]
              credited == ReputationStore'[e.to].weighted_received
                              - ReputationStore[e.to].weighted_received
          IN  /\ ReputationStore[e.from].score >= 10
              /\ ReputationStore[e.from].claim_streak >= 1
              /\ calculate_sender_weight(ReputationStore[e.from].score) # 500
              /\ calculate_sender_weight(ReputationStore[e.from].score) >= 750
              /\ credited >= (e.amount * 750) \div 1000]_vars

\* ALICE's streak was broken and restarted at 1, and her first burn after that
\* has just been credited to BOB at the 750 tier
C28_Witness ==
    /\ last.op = "burn"
    /\ Succeeded
    /\ ReputationStore[ALICE].claim_streak = 1
    /\ ReputationStore[ALICE].burns_sent_count = 1
    /\ ReputationStore[ALICE].first_activity < LastClaim[ALICE]
    /\ ReputationStore[BOB].weighted_received = (LastEvent.amount * 750) \div 1000

(***************************************************************************)
(* C29.  Sender-weight tier table: calculate_sender_weight(s) is 500 for   *)
(* s < 10, 750 for 10 <= s < 100, 1000 for 100 <= s < 1000, 1500 for       *)
(* 1000 <= s < 10000 and 2000 for s >= 10000; it is non-decreasing in s    *)
(* and its result is one of 500, 750, 1000, 1500, 2000.  Checked for the   *)
(* scores around every tier boundary and for every score an account of a   *)
(* reachable state has cached.                                             *)
(***************************************************************************)
TierBoundaries == { 10, 100, 1000, 10000 }

ScoreSamples ==
    { 0 } \cup UNION { { b - 2, b - 1, b, b + 1, b + 2 } : b \in TierBoundaries }
        \cup { ReputationStore[a].score : a \in Accounts }

C29_TierTable ==
    /\ \A s \in ScoreSamples :
          /\ calculate_sender_weight(s) = SenderWeightTier(s)
          /\ calculate_sender_weight(s) \in { 500, 750, 1000, 1500, 2000 }
    /\ \A s \in ScoreSamples, t \in ScoreSamples :
          s <= t => calculate_sender_weight(s) <= calculate_sender_weight(t)

\* the scores cached by the two accounts fall into different tiers
C29_Witness ==
    /\ calculate_sender_weight(ReputationStore[ALICE].score) = 750
    /\ calculate_sender_weight(ReputationStore[BOB].score) = 1000

(***************************************************************************)
(* C30.  Unique-recipient cap: in every reachable state                    *)
(* unique_recipients_count(a) <= MAX_UNIQUE_RECIPIENTS for every account   *)
(* a, so the breadth bonus is capped once an account has burned to         *)
(* MAX_UNIQUE_RECIPIENTS distinct recipients.                              *)
(***************************************************************************)
C30_UniqueRecipientCap ==
    \A a \in Accounts :
        /\ ReputationStore[a].unique_recipients_count <= MAX_UNIQUE_RECIPIENTS
        /\ ReputationStore[a].unique_recipients_count * POINTS_PER_UNIQUE_RECIPIENT
               <= MAX_UNIQUE_RECIPIENTS * POINTS_PER_UNIQUE_RECIPIENT

(***************************************************************************)
(* C31.  LastClaim never lies in the future: with the height               *)
(* non-decreasing, LastClaim[a] <= height for every account that has       *)
(* claimed, LastClaim[a] is non-decreasing over time, and it changes only  *)
(* on a successful Claim(a).                                               *)
(***************************************************************************)
C31_LastClaimInPast ==
    [][ /\ height <= height'
        /\ \A a \in Accounts :
              /\ LastClaim[a] # None => LastClaim[a] <= height
              /\ LastClaim'[a] # None => LastClaim'[a] <= height'
              /\ LastClaim[a] <= LastClaim'[a]
              /\ LastClaim'[a] # LastClaim[a] =>
                    /\ last' = [op |-> "claim", who |-> a, res |-> "Ok"]
                    /\ LastClaim'[a] = height ]_vars

\* an account claimed in an earlier block and again in this one, so its
\* LastClaim moved forward, while the other account's stayed behind
C31_Witness ==
    /\ last = [op |-> "claim", who |-> ALICE, res |-> "Ok"]
    /\ LastClaim[ALICE] = height
    /\ ReputationStore[ALICE].claim_streak >= 2
    /\ LastClaim[BOB] # None
    /\ LastClaim[BOB] < height

C34_EligibilityAnchored ==
    \A a \in Accounts :
        /\ LastClaim[a] = None => can_claim(Store, a, height)
        /\ LastClaim[a] # None =>
              /\ LastClaim[a] <= height
              /\ height < LastClaim[a] + ClaimPeriodBlocks => ~can_claim(Store, a, height)
              /\ height >= LastClaim[a] + ClaimPeriodBlocks => can_claim(Store, a, height)
        /\ last = [op |-> "claim", who |-> a, res |-> "Ok"] =>
              /\ LastClaim[a] = height
              /\ ~can_claim(Store, a, height)

\* one account claimed in the block before a period boundary and cannot
\* claim in the block after it; the other claimed over a period ago and can
C34_Witness ==
    \E a \in Accounts, b \in Accounts :
        /\ LastClaim[a] # None
        /\ height = LastClaim[a] + ClaimPeriodBlocks - 1
        /\ height \div ClaimPeriodBlocks # LastClaim[a] \div ClaimPeriodBlocks
        /\ ~can_claim(Store, a, height)
        /\ LastClaim[b] # None
        /\ height > LastClaim[b] + ClaimPeriodBlocks
        /\ can_claim(Store, b, height)

(***************************************************************************)
(* C35.  Cumulative mint bound: for every account a that first claimed at  *)
(* height H0, the total amount ever minted to a up to any state is at most *)
(* UbiAmount * (1 + floor((LastClaim[a] - H0) / ClaimPeriodBlocks)); no    *)
(* sequence of claims mints more than one UbiAmount per elapsed claim      *)
(* period.  Stated step by step: the first claim mints one UbiAmount and   *)
(* sets LastClaim to H0; a later claim at height H mints no more than the  *)
(* bound grows, UbiAmount * (floor((H - H0) / P) - floor((L - H0) / P))    *)
(* for the previous LastClaim L and whatever earlier height H0 the first   *)
(* claim was made at; no other step adds to the ledger of a.  The sum of   *)
(* the mints of a behaviour then telescopes to the bound.                  *)
(***************************************************************************)
C35_CumulativeMintBound ==
    [][ \A a \in Accounts :
          LET minted == StoredSum(a)' - LiveSum(a)
          IN  IF last' = [op |-> "claim", who |-> a, res |-> "Ok"]
              THEN /\ LastClaim'[a] = height
                   /\ minted > 0
                   /\ LastClaim[a] = None => minted = UbiAmount
                   /\ LastClaim[a] # None =>
                         \A H0 \in 1 .. LastClaim[a] :
                            minted <= UbiAmount *
                                ((height - H0) \div ClaimPeriodBlocks
                                    - (LastClaim[a] - H0) \div ClaimPeriodBlocks)
              ELSE /\ StoredSum(a)' <= StoredSum(a)
                   /\ LastClaim'[a] = LastClaim[a] ]_vars

\* a later claim has minted two periods at once, two periods after the
\* first claim of the account
C35_Witness ==
    /\ last = [op |-> "claim", who |-> ALICE, res |-> "Ok"]
    /\ events[Len(events)].type = "Claimed"
    /\ events[Len(events)].periods = 2
    /\ events[Len(events)].amount = UbiAmount + UbiAmount
    /\ ReputationStore[ALICE].first_activity < height
    /\ LastClaim[BOB] # None

(***************************************************************************)
(* C36.  No accumulation: in every reachable state and at every height,    *)
(* spendable_balance(a) <= UbiAmount * (MaxBacklogPeriods +                *)
(* floor((ExpirationBlocks - 1) / ClaimPeriodBlocks)) for every account a, *)
(* which is 900 under the test configuration (UbiAmount = 100,             *)
(* ClaimPeriodBlocks = 100, ExpirationBlocks = 700, MaxBacklogPeriods = 3).*)
(***************************************************************************)
SpendableBound(c) ==
    c.UbiAmount * (c.MaxBacklogPeriods + (c.ExpirationBlocks - 1) \div c.ClaimPeriodBlocks)

C36_NoAccumulation ==
    /\ \A a \in Accounts :
          /\ spendable_balance(Store, a, height) <= SpendableBound(cfg)
          /\ LiveSum(a) <= SpendableBound(cfg)
    /\ SpendableBound(TestConfig) = 900

\* the bound is met: a claim of the full backlog followed by a claim in each
\* of the next six blocks, all seven batches still live
C36_Witness ==
    /\ spendable_balance(Store, ALICE, height) = SpendableBound(cfg)
    /\ Len(Balances[ALICE]) = 7
    /\ ExpiredSum(ALICE) = 0
    /\ last = [op |-> "claim", who |-> ALICE, res |-> "Ok"]

C38_NoSupplyUnderflow ==
    \A from \in Accounts :
        LET c == cleanup_expired_batches(Store, from, height)
        IN  /\ c.expired <= TotalSupply
            /\ c.store.TotalSupply = TotalSupply - c.expired
            /\ \A amount \in BurnAmounts, to \in Accounts \ {from} :
                  LET f == burn_fifo(c.store, from, amount, height)
                      out == burn(Store, height, from, to, amount)
                  IN  out.res = "Ok" =>
                         /\ f.res = "Ok"
                         /\ amount <= f.store.TotalSupply
                         /\ out.store.TotalSupply = TotalSupply - c.expired - amount

\* a burn has swept an expired batch and spent the last live tokens in
\* circulation: both decrements together took the supply to exactly zero
C38_Witness ==
    /\ last.op = "burn"
    /\ Succeeded
    /\ Len(events) = 2
    /\ events[1].type = "Expired"
    /\ events[2].type = "Burned"
    /\ events[1].amount > 0
    /\ events[2].amount > 0
    /\ TotalSupply = 0

====
